---- MODULE Spec2Model ----
(***************************************************************************)
(* Model of the notification relay of jupyterlab_notifications_extension:  *)
(* the process-wide store of routes.py, the ingest handler (POST) and the  *)
(* fetch handler (GET).                                                    *)
(*                                                                         *)
(* A request body is JSON text, a stored notification is a Python value.   *)
(* The two are kept apart: json_loads turns text into Python values and    *)
(* json_dumps turns Python values back into text.                          *)
(***************************************************************************)
EXTENDS Integers, Sequences, FiniteSets, TLC

(***************************************************************************)
(* Bounds of the model.                                                    *)
(***************************************************************************)
\* number of notification objects the ingest handler may create in one run
MaxIngests == 3
\* the clock runs from 0 to MaxTime (epoch milliseconds)
MaxTime == 1

(***************************************************************************)
(* JSON text, as a tree of tokens.  j is the kind of the token.            *)
(***************************************************************************)
\* an object or dict with no members, a list with no items
NoMembers == [k \in {} |-> 0]
NoItems == <<>>

JNull == [j |-> "null", s |-> "null", items |-> NoItems, members |-> NoMembers]
JTrue == [j |-> "bool", s |-> "true", items |-> NoItems, members |-> NoMembers]
JFalse == [j |-> "bool", s |-> "false", items |-> NoItems, members |-> NoMembers]
JNum(n) == [j |-> "number", s |-> n, items |-> NoItems, members |-> NoMembers]
JStr(c) == [j |-> "string", s |-> c, items |-> NoItems, members |-> NoMembers]
JArr(seq) == [j |-> "array", s |-> "", items |-> seq, members |-> NoMembers]
JObj(f) == [j |-> "object", s |-> "", items |-> NoItems, members |-> f]
\* a body that is no JSON text at all
NotJson == [j |-> "invalid", s |-> "{", items |-> NoItems, members |-> NoMembers]

(***************************************************************************)
(* Python values.  ty is the Python type of the value; s holds a scalar,   *)
(* items the elements of a list, members the entries of a dict.            *)
(***************************************************************************)
None == [ty |-> "NoneType", s |-> "None", items |-> NoItems, members |-> NoMembers]
PyTrue == [ty |-> "bool", s |-> "True", items |-> NoItems, members |-> NoMembers]
PyFalse == [ty |-> "bool", s |-> "False", items |-> NoItems, members |-> NoMembers]
PyInt(n) == [ty |-> "int", s |-> n, items |-> NoItems, members |-> NoMembers]
PyStr(c) == [ty |-> "str", s |-> c, items |-> NoItems, members |-> NoMembers]
PyList(seq) == [ty |-> "list", s |-> "", items |-> seq, members |-> NoMembers]
PyDict(f) == [ty |-> "dict", s |-> "", items |-> NoItems, members |-> f]

\* json.loads: JSON text to Python value (the text is valid JSON)
RECURSIVE json_loads(_)
json_loads(t) ==
  CASE t.j = "null" -> None
    [] t.j = "bool" -> IF t.s = "true" THEN PyTrue ELSE PyFalse
    [] t.j = "number" -> PyInt(t.s)
    [] t.j = "string" -> PyStr(t.s)
    [] t.j = "array" -> PyList([i \in 1..Len(t.items) |-> json_loads(t.items[i])])
    [] t.j = "object" -> PyDict([k \in DOMAIN t.members |-> json_loads(t.members[k])])

\* json.dumps: Python value to JSON text
RECURSIVE json_dumps(_)
json_dumps(p) ==
  CASE p.ty = "NoneType" -> JNull
    [] p.ty = "bool" -> IF p.s = "True" THEN JTrue ELSE JFalse
    [] p.ty = "int" -> JNum(p.s)
    [] p.ty = "str" -> JStr(p.s)
    [] p.ty = "list" -> JArr([i \in 1..Len(p.items) |-> json_dumps(p.items[i])])
    [] p.ty = "dict" -> JObj([k \in DOMAIN p.members |-> json_dumps(p.members[k])])

(***************************************************************************)
(* Requests.  A request has an origin, the identity the host framework     *)
(* verifies from its credential (NoCred: none, or an invalid one) and,     *)
(* for an ingest, a body.                                                  *)
(***************************************************************************)
Users == {"alice", "bob"}
NoCred == "<none>"
Creds == Users \cup {NoCred}
Origins == {"loopback", "remote"}
\* a GET carries no body
NoBody == [j |-> "none", s |-> "", items |-> NoItems, members |-> NoMembers]

\* the reserved key of routes.py
BROADCAST == PyStr("__broadcast__")

VARIABLES
  store,   \* _notification_store: key -> list of notifications
  now,     \* the clock, in epoch milliseconds
  resp,    \* the response to the last request
  last,    \* history: the last request
  nIngest, \* history: number of notification objects created so far
  handed,  \* history: handed[u][n] = times notification n was returned to u
  shot,    \* history: shot[n] = the user handed n out of the reserved partition
  quiet,   \* history: quiet[u] = u has fetched and no ingest was handled since
  known,   \* history: users who have fetched or were named by a successful ingest
  appended, \* history: appended[n] = copies of notification n appended to the store
  cli      \* the outcome of the last run of the command line tool

vars == <<store, now, resp, last, nIngest, handed, shot, quiet, known, appended, cli>>

(***************************************************************************)
(* Access gate: tornado.web.authenticated over APIHandler.current_user.    *)
(***************************************************************************)
\* the handlers of routes.py inherit get_current_user from APIHandler: the
\* identity is the one the framework verifies, whatever the origin
current_user(req) ==
  IF req.cred \in Users THEN PyDict([name |-> PyStr(req.cred)]) ELSE None

\* variant: the handler body runs for every request (the decorator left out)
authenticated_Always(user) == TRUE

\* @tornado.web.authenticated: the handler body runs only with a current user
authenticated(user) == user.ty # "NoneType"

\* the framework's answer to a request without a current user
Forbidden == [status |-> 403, body |-> json_dumps(PyDict([message |-> PyStr("Forbidden")])), sent |-> <<>>]

(***************************************************************************)
(* Python helpers used by the handlers.                                    *)
(***************************************************************************)
\* key in container: "yes", "no" or "TypeError" (the operand is not a
\* container).  A str container (substring test) is not among the inputs.
Contains(container, key) ==
  CASE container.ty = "dict" -> IF key \in DOMAIN container.members THEN "yes" ELSE "no"
    [] container.ty = "list" ->
         IF \E i \in 1..Len(container.items) : container.items[i] = PyStr(key) THEN "yes" ELSE "no"
    [] container.ty \in {"NoneType", "bool", "int"} -> "TypeError"

\* truth value of a Python value
Truthy(p) ==
  CASE p.ty = "NoneType" -> FALSE
    [] p.ty = "bool" -> p.s = "True"
    [] p.ty = "int" -> p.s # "0"
    [] p.ty = "str" -> p.s # ""
    [] p.ty = "list" -> Len(p.items) > 0
    [] p.ty = "dict" -> DOMAIN p.members # {}

\* variant: dict.get(key) or default, which replaces falsy values as well
Get_OrDefault(d, key, default) ==
  IF key \in DOMAIN d.members /\ Truthy(d.members[key]) THEN d.members[key] ELSE default

\* dict.get(key, default)
Get(d, key, default) ==
  IF key \in DOMAIN d.members THEN d.members[key] ELSE default

\* lists and dicts cannot be dictionary keys
Hashable(p) == p.ty \notin {"list", "dict"}

\* _notification_store[key].append(entry) on a defaultdict(list)
AppendTo(st, key, entry) ==
  IF key \in DOMAIN st
    THEN [st EXCEPT ![key] = Append(@, entry)]
    ELSE [k \in DOMAIN st \cup {key} |-> IF k = key THEN <<entry>> ELSE st[k]]

\* _notification_store.get(key, [])
StoreGet(st, key) == IF key \in DOMAIN st THEN st[key] ELSE <<>>

(***************************************************************************)
(* NotificationIngestHandler.post                                          *)
(***************************************************************************)
\* the members of the request body that describe the notification
Described == {"message", "type", "autoClose", "actions", "data"}
Submitted(body) ==
  [k \in DOMAIN body.members \cap Described |-> body.members[k]]

\* the notification object.  History: n is the ordinal of the object and
\* given the members of the request body it was made from
Notification(payload, st, ms, n, body) ==
  [n |-> n, given |-> Submitted(body),
   rec |-> PyDict([id |-> PyStr("notif_" \o ToString(ms) \o "_" \o ToString(Cardinality(DOMAIN st))),
                   message |-> payload.members["message"],
                   type |-> Get(payload, "type", PyStr("info")),
                   autoClose |-> Get(payload, "autoClose", PyInt("5000")),
                   createdAt |-> PyInt(ToString(ms)),
                   actions |-> Get(payload, "actions", PyList(<<>>))])]

\* variant: a broadcast is kept under the reserved key only
Broadcast_ReservedOnly(st, entry) == AppendTo(st, BROADCAST, entry)

\* target_users is None: append to every key of the store, and to the
\* reserved key when the store has no key
Broadcast(st, entry) ==
  IF DOMAIN st = {}
    THEN AppendTo(st, BROADCAST, entry)
    ELSE [k \in DOMAIN st |-> Append(st[k], entry)]

\* for username in target_users: append; an unhashable element raises
\* TypeError after the elements before it were served
RECURSIVE SendEach(_, _, _, _)
SendEach(st, names, i, entry) ==
  IF i > Len(names) THEN [ok |-> TRUE, store |-> st, error |-> ""]
  ELSE IF ~Hashable(names[i]) THEN [ok |-> FALSE, store |-> st, error |-> "unhashable type"]
  ELSE SendEach(AppendTo(st, names[i], entry), names, i + 1, entry)

\* the else branch: iterate target_users (a str, iterated by character, is
\* not among the inputs)
SendTo(st, target_users, entry) ==
  CASE target_users.ty = "list" -> SendEach(st, target_users.items, 1, entry)
    [] target_users.ty \in {"bool", "int"} -> [ok |-> FALSE, store |-> st, error |-> "object is not iterable"]

Deliver(st, target_users, entry) ==
  IF target_users.ty = "NoneType"
    THEN [ok |-> TRUE, store |-> Broadcast(st, entry), error |-> ""]
    ELSE SendTo(st, target_users, entry)

ErrorBody(text) == json_dumps(PyDict([error |-> PyStr(text)]))

\* the body of post: the response, the store after it, and whether a
\* notification object was created
IngestOutcome(st, body, ms, n) ==
  IF body.j = "invalid"
    THEN [status |-> 400, body |-> ErrorBody("Invalid JSON payload"), store |-> st, created |-> FALSE]
  ELSE
    LET payload == json_loads(body)
        has == Contains(payload, "message")
    IN
    IF has = "TypeError"
      THEN [status |-> 500, body |-> ErrorBody("argument is not iterable"), store |-> st, created |-> FALSE]
    ELSE IF has = "no"
      THEN [status |-> 400, body |-> ErrorBody("Missing 'message' field"), store |-> st, created |-> FALSE]
    ELSE IF payload.ty # "dict"
      THEN [status |-> 500, body |-> ErrorBody("list indices must be integers"), store |-> st, created |-> FALSE]
    ELSE
      LET notification == Notification(payload, st, ms, n, body)
          target_users == Get(payload, "target_users", None)
          sent == Deliver(st, target_users, notification)
      IN
      IF sent.ok
        THEN [status |-> 200,
              body |-> json_dumps(PyDict([success |-> PyTrue,
                                          notification_id |-> notification.rec.members["id"],
                                          target_users |-> IF Truthy(target_users) THEN target_users ELSE PyStr("all")])),
              store |-> sent.store, created |-> TRUE]
        ELSE [status |-> 500, body |-> ErrorBody(sent.error), store |-> sent.store, created |-> TRUE]

\* the user names in the target_users list of a body, none when it has no list
Named(body) ==
  IF body.j = "object" /\ "target_users" \in DOMAIN body.members
       /\ body.members["target_users"].j = "array"
    THEN {body.members["target_users"].items[i].s :
            i \in {j \in 1..Len(body.members["target_users"].items) :
                     body.members["target_users"].items[j].j = "string"}}
    ELSE {}

\* the copies of notification n in the lists of the store under keys
RECURSIVE Copies(_, _, _)
Copies(st, keys, n) ==
  IF keys = {} THEN 0
  ELSE LET k == CHOOSE x \in keys : TRUE
       IN Cardinality({i \in 1..Len(st[k]) : st[k][i].n = n}) + Copies(st, keys \ {k}, n)

post(req) ==
  LET user == current_user(req) IN
  IF ~authenticated(user)
    THEN /\ resp' = Forbidden
         /\ last' = [op |-> "ingest", origin |-> req.origin, cred |-> req.cred, body |-> req.body,
                     handled |-> FALSE, quiet |-> FALSE]
         /\ UNCHANGED <<store, now, nIngest, handed, shot, quiet, known, appended, cli>>
    ELSE
      LET out == IngestOutcome(store, req.body, now, nIngest + 1) IN
      /\ nIngest < MaxIngests
      /\ store' = out.store
      /\ resp' = [status |-> out.status, body |-> out.body, sent |-> <<>>]
      /\ nIngest' = IF out.created THEN nIngest + 1 ELSE nIngest
      /\ quiet' = [u \in Users |-> FALSE]
      /\ last' = [op |-> "ingest", origin |-> req.origin, cred |-> req.cred, body |-> req.body,
                  handled |-> TRUE, quiet |-> FALSE]
      /\ known' = IF out.status = 200 THEN known \cup Named(req.body) ELSE known
      /\ appended' = IF out.created
                       THEN [appended EXCEPT ![nIngest + 1] = Copies(out.store, DOMAIN out.store, nIngest + 1)]
                       ELSE appended
      /\ UNCHANGED <<now, handed, shot, cli>>

(***************************************************************************)
(* NotificationFetchHandler.get                                            *)
(***************************************************************************)
\* variant: the broadcast list is not added to the response
Fetched_UserListOnly(st, username) == StoreGet(st, username)

\* notifications: the user's list extended by the broadcast list
Fetched(st, username) == StoreGet(st, username) \o StoreGet(st, BROADCAST)

\* variant: only the reserved key is deleted, the user's list is kept
Cleared_KeepsUserList(st, username) ==
  IF BROADCAST \in DOMAIN st
    THEN [k \in DOMAIN st \ {BROADCAST} |-> st[k]]
    ELSE st

\* _notification_store[username] = [] and del of the reserved key
Cleared(st, username) ==
  LET st1 == [k \in DOMAIN st \cup {username} |-> IF k = username THEN <<>> ELSE st[k]]
  IN IF BROADCAST \in DOMAIN st1
       THEN [k \in DOMAIN st1 \ {BROADCAST} |-> st1[k]]
       ELSE st1

Ordinals(entries) == [i \in 1..Len(entries) |-> entries[i].n]
Origin(entries) == [i \in 1..Len(entries) |-> [n |-> entries[i].n, given |-> entries[i].given]]
NoOne == ""
Records(entries) == [i \in 1..Len(entries) |-> entries[i].rec]
Count(seq, x) == Cardinality({i \in 1..Len(seq) : seq[i] = x})

get(req) ==
  LET user == current_user(req) IN
  IF ~authenticated(user)
    THEN /\ resp' = Forbidden
         /\ last' = [op |-> "fetch", origin |-> req.origin, cred |-> req.cred, body |-> NoBody,
                     handled |-> FALSE, quiet |-> FALSE]
         /\ UNCHANGED <<store, now, nIngest, handed, shot, quiet, known, appended, cli>>
  ELSE IF user.ty # "dict"
    \* self.current_user['name'] on a value that is no dict: TypeError
    THEN /\ resp' = [status |-> 500, body |-> ErrorBody("object is not subscriptable"), sent |-> <<>>]
         /\ last' = [op |-> "fetch", origin |-> req.origin, cred |-> req.cred, body |-> NoBody,
                     handled |-> FALSE, quiet |-> FALSE]
         /\ UNCHANGED <<store, now, nIngest, handed, shot, quiet, known, appended, cli>>
  ELSE
      LET username == user.members["name"]
          notifications == Fetched(store, username)
          reserved == Ordinals(StoreGet(store, BROADCAST))
      IN
      /\ store' = Cleared(store, username)
      /\ resp' = [status |-> 200,
                  body |-> json_dumps(PyDict([notifications |-> PyList(Records(notifications))])),
                  sent |-> Origin(notifications)]
      /\ handed' = [handed EXCEPT ![username.s] =
                      [n \in 1..MaxIngests |-> @[n] + Count(Ordinals(notifications), n)]]
      /\ shot' = [n \in 1..MaxIngests |->
                    IF Count(reserved, n) > 0 THEN username.s ELSE shot[n]]
      /\ last' = [op |-> "fetch", origin |-> req.origin, cred |-> req.cred, body |-> NoBody,
                  handled |-> TRUE, quiet |-> quiet[username.s]]
      /\ quiet' = [quiet EXCEPT ![username.s] = TRUE]
      /\ known' = known \cup {username.s}
      /\ UNCHANGED <<now, nIngest, appended, cli>>

(***************************************************************************)
(* cli.py: main in local mode (neither --use-api nor --url).  The tool is  *)
(* a process of its own: the _notification_store it imports is the object  *)
(* its own import of routes.py creates, empty, not the server's.           *)
(***************************************************************************)
\* the type of _notification_store, and the methods of the Python types
StoreType == "defaultdict"
Methods(ty) ==
  CASE ty = "list" -> {"append", "extend", "copy", "clear", "pop"}
    [] ty \in {"dict", "defaultdict"} -> {"get", "keys", "values", "items", "copy", "clear", "pop"}

\* the store of a process that has just imported routes.py
FreshStore == [k \in {} |-> <<>>]

\* send_notification_local: the result, or the exception it raises
send_notification_local(message, notification_type, auto_close, actions, data, ms) ==
  LET local == FreshStore
      notification ==
        PyDict([id |-> PyStr("notif_" \o ToString(ms) \o "_" \o ToString(Cardinality(DOMAIN local))),
                message |-> message,
                type |-> notification_type,
                autoClose |-> auto_close,
                createdAt |-> PyInt(ToString(ms)),
                actions |-> IF Truthy(actions) THEN actions ELSE PyList(<<>>),
                data |-> data])
  IN IF "append" \in Methods(StoreType)
       THEN [raised |-> "", local |-> Append(local, notification),
             result |-> PyDict([success |-> PyTrue, notification_id |-> notification.members["id"]])]
       ELSE [raised |-> "AttributeError", local |-> local, result |-> None]

\* main: the exit status and what send_notification_local returned
main(args, ms) ==
  IF args.message.ty = "NoneType"
    THEN [exit |-> 0, sent |-> FALSE, result |-> None]
  ELSE
    LET auto_close == IF args.no_auto_close THEN PyFalse ELSE args.auto_close
        actions == IF Truthy(args.action)
                     THEN PyList(<<PyDict([label |-> args.action,
                                           caption |-> PyStr("Close this notification"),
                                           displayType |-> PyStr("default")])>>)
                     ELSE None
        out == send_notification_local(args.message, args.type, auto_close, actions, None, ms)
    IN IF out.raised = ""
         THEN [exit |-> 0, sent |-> TRUE, result |-> out.result]
         ELSE [exit |-> 1, sent |-> TRUE, result |-> None]

RunLocal(args) ==
  /\ cli' = [args |-> args, out |-> main(args, now)]
  /\ last' = [op |-> "cli", origin |-> "loopback", cred |-> NoCred, body |-> NoBody,
              handled |-> FALSE, quiet |-> FALSE]
  /\ UNCHANGED <<store, now, resp, nIngest, handed, shot, quiet, known, appended>>

\* time passes
Tick ==
  /\ now < MaxTime
  /\ now' = now + 1
  /\ UNCHANGED <<store, resp, last, nIngest, handed, shot, quiet, known, appended, cli>>

(***************************************************************************)
(* Inputs.                                                                 *)
(***************************************************************************)
Msg == JStr("m")
Alice == JStr("alice")
Bob == JStr("bob")

\* payloads that differ in how they address the notification
TargetBodies ==
  { JObj([message |-> Msg]),
    JObj([message |-> Msg, target_users |-> JNull]),
    JObj([message |-> Msg, target_users |-> JArr(<<>>)]),
    JObj([message |-> Msg, target_users |-> JArr(<<Alice>>)]),
    JObj([message |-> Msg, target_users |-> JArr(<<Alice, Bob>>)]),
    JObj([message |-> Msg, target_users |-> JArr(<<Alice, JArr(<<JStr("x")>>)>>)]) }

\* bodies that are no ingest payload, with two payloads that fill the store
MalformedBodies ==
  { NotJson, JNull, JNum("42"), JArr(<<>>), JArr(<<JStr("message")>>),
    JObj(NoMembers), JObj([type |-> JStr("info")]),
    JObj([message |-> Msg, target_users |-> JNum("5")]),
    JObj([message |-> Msg]),
    JObj([message |-> Msg, target_users |-> JArr(<<Alice>>)]) }

Retry == JObj([label |-> JStr("Retry"), displayType |-> JStr("accent")])
Close == JObj([label |-> JStr("Close"), caption |-> JStr("Close this notification"),
               displayType |-> JStr("default")])

\* payloads that differ in the optional fields of the notification
FieldBodies ==
  { JObj([message |-> Msg]),
    JObj([message |-> Msg, type |-> JStr("success"), autoClose |-> JNum("3000")]),
    JObj([message |-> Msg, autoClose |-> JFalse, actions |-> JArr(<<Retry, Close>>)]),
    JObj([message |-> Msg, type |-> JStr("error"), data |-> JObj([k |-> JStr("v")]),
          target_users |-> JArr(<<Alice>>)]) }

\* flags of the command line tool in local mode
NoArgs == [message |-> None, type |-> PyStr("info"), auto_close |-> PyInt("5000"),
           no_auto_close |-> FALSE, action |-> None]
CliArgs ==
  { NoArgs,
    [NoArgs EXCEPT !.message = PyStr("m")],
    [NoArgs EXCEPT !.message = PyStr("m"), !.type = PyStr("warning"), !.no_auto_close = TRUE],
    [NoArgs EXCEPT !.message = PyStr("m"), !.auto_close = PyInt("0"), !.action = PyStr("OK")] }

\* a broadcast and a notification for one user
FewBodies ==
  { JObj([message |-> Msg]),
    JObj([message |-> Msg, target_users |-> JArr(<<Alice>>)]) }

Init ==
  /\ store = [k \in {} |-> <<>>]
  /\ now = 0
  /\ resp = [status |-> 0, body |-> NoBody, sent |-> <<>>]
  /\ last = [op |-> "none", origin |-> "loopback", cred |-> NoCred, body |-> NoBody,
             handled |-> FALSE, quiet |-> FALSE]
  /\ nIngest = 0
  /\ handed = [u \in Users |-> [n \in 1..MaxIngests |-> 0]]
  /\ shot = [n \in 1..MaxIngests |-> NoOne]
  /\ quiet = [u \in Users |-> FALSE]
  /\ known = {}
  /\ appended = [n \in 1..MaxIngests |-> 0]
  /\ cli = [args |-> NoArgs, out |-> [exit |-> 0, sent |-> FALSE, result |-> None]]

Ingest ==
  \E origin \in Origins, cred \in Creds, body \in TargetBodies :
    post([origin |-> origin, cred |-> cred, body |-> body])

IngestBodies ==
  \E origin \in Origins, cred \in Creds, body \in MalformedBodies :
    post([origin |-> origin, cred |-> cred, body |-> body])

\* the handlers never read the origin of a request: one origin is enough
\* where the fields of the payload are what varies
IngestFields ==
  \E cred \in Creds, body \in FieldBodies :
    post([origin |-> "remote", cred |-> cred, body |-> body])

IngestFew ==
  \E origin \in Origins, cred \in Creds, body \in FewBodies :
    post([origin |-> origin, cred |-> cred, body |-> body])

CliLocal == \E args \in CliArgs : RunLocal(args)

Fetch ==
  \E origin \in Origins, cred \in Creds :
    get([origin |-> origin, cred |-> cred])

\* the handlers never read the origin of a request: one origin is enough
\* where the users and the targets are what varies
IngestUsers ==
  \E cred \in Creds, body \in TargetBodies :
    post([origin |-> "remote", cred |-> cred, body |-> body])

FetchUsers ==
  \E cred \in Creds : get([origin |-> "remote", cred |-> cred])

\* requests handled within one reading of the clock
Next == Ingest \/ Fetch

\* the same requests, from one origin
NextUsers == IngestUsers \/ FetchUsers

\* requests from every origin with every credential
NextOrigins == IngestFew \/ Fetch

NextBodies == IngestBodies \/ Fetch

NextFields == IngestFields \/ Fetch

\* requests handled while the clock advances
NextClock == Ingest \/ Fetch \/ Tick

\* requests handled while the command line tool is run in local mode
NextCli == IngestFew \/ Fetch \/ CliLocal

Spec == Init /\ [][Next]_vars

SpecUsers == Init /\ [][NextUsers]_vars

SpecOrigins == Init /\ [][NextOrigins]_vars

SpecCli == Init /\ [][NextCli]_vars

SpecBodies == Init /\ [][NextBodies]_vars

SpecFields == Init /\ [][NextFields]_vars

SpecClock == Init /\ [][NextClock]_vars

(***************************************************************************)
(* Notions shared by the properties.                                       *)
(***************************************************************************)
\* the body is a JSON object with a message member
HasMessage(body) == body.j = "object" /\ "message" \in DOMAIN body.members

\* target_users is absent or null
ToAll(body) ==
  \/ "target_users" \notin DOMAIN body.members
  \/ body.members["target_users"].j = "null"

\* target_users is a list of user names (possibly the empty list)
ToNamed(body) ==
  /\ "target_users" \in DOMAIN body.members
  /\ body.members["target_users"].j = "array"
  /\ \A i \in 1..Len(body.members["target_users"].items) :
       body.members["target_users"].items[i].j = "string"

TargetNames(body) ==
  {body.members["target_users"].items[i].s : i \in 1..Len(body.members["target_users"].items)}

\* notification n is returned by the next fetch of user u
Pending(u, n) == \E i \in 1..Len(Fetched(store, PyStr(u))) : Fetched(store, PyStr(u))[i].n = n

\* notification n is in some partition of the store
Stored(n) == \E k \in DOMAIN store : \E i \in 1..Len(store[k]) : store[k][i].n = n

IngestHandled == last.op = "ingest" /\ last.handled
FetchHandled == last.op = "fetch" /\ last.handled
Success == resp.status = 200 /\ "success" \in DOMAIN resp.body.members
           /\ resp.body.members["success"] = JTrue
\* the JSON records of a fetch response
Returned == resp.body.members["notifications"].items

(***************************************************************************)
(* C1: every ingest whose body is a JSON object with a message, with       *)
(* target_users absent, null, an empty list or a list of user names,       *)
(* answers 200 with success=true and leaves the record pending: for each   *)
(* named user when users are named, for some user when target_users is     *)
(* absent or null; and no ingest answers success while the record is in no *)
(* partition.  Stated as the claim states it; the code violates it for     *)
(* target_users = [].                                                      *)
(***************************************************************************)
C1_IngestLeavesRecordPending ==
  (IngestHandled /\ HasMessage(last.body) /\ (ToAll(last.body) \/ ToNamed(last.body))) =>
    /\ Success
    /\ Stored(nIngest)
    /\ ToNamed(last.body) => \A u \in TargetNames(last.body) : Pending(u, nIngest)
    /\ ToAll(last.body) => \E u \in Users : Pending(u, nIngest)

(***************************************************************************)
(* C2: no user is ever handed the same ingested record twice, neither      *)
(* within one fetch response nor in a later fetch.  Stated as the claim    *)
(* states it; the code violates it when a broadcast is appended to a user  *)
(* partition and to the reserved partition.                                *)
(***************************************************************************)
C2_NoRecordHandedTwice ==
  \A u \in Users : \A n \in 1..MaxIngests : handed[u][n] <= 1

(***************************************************************************)
(* C3: drain.  A fetch by a user who has fetched before, with no ingest    *)
(* handled in between, returns an empty notifications list.                *)
(***************************************************************************)
C3_SecondFetchIsEmpty ==
  (FetchHandled /\ last.quiet) =>
    /\ resp.status = 200
    /\ Returned = <<>>

\* a user fetched records and then fetched again with no ingest in between
C3_Witness ==
  /\ FetchHandled /\ last.quiet
  /\ \E n \in 1..MaxIngests : handed[last.cred][n] > 0

(***************************************************************************)
(* C4: a request from a non-loopback origin without a verified identity    *)
(* leaves every partition of the store as it was and is returned no        *)
(* record.                                                                 *)
(***************************************************************************)
C4_UnauthenticatedRemoteNeverReachesStore ==
  [][(last'.op # "none" /\ last'.origin = "remote" /\ last'.cred = NoCred) =>
       /\ store' = store
       /\ "notifications" \notin DOMAIN resp'.body.members
       /\ "success" \notin DOMAIN resp'.body.members]_vars

\* an unauthenticated remote fetch was answered while records were pending
C4_Witness ==
  /\ last.op = "fetch" /\ last.origin = "remote" /\ last.cred = NoCred
  /\ \E u \in Users : \E n \in 1..MaxIngests : Pending(u, n)

(***************************************************************************)
(* C5: a loopback request without a credential is handled under the        *)
(* identity {name: "localhost"}: the ingest answers 200 with success=true, *)
(* the fetch reads and clears the partition of "localhost"; a non-loopback *)
(* request is handled exactly when the framework verified an identity.     *)
(* Stated as the claim states it; routes.py has no loopback rule.          *)
(***************************************************************************)
C5_LoopbackIsLocalhost ==
  /\ (last.op = "ingest" /\ last.origin = "loopback" /\ last.cred = NoCred
        /\ HasMessage(last.body) /\ (ToAll(last.body) \/ ToNamed(last.body))) => Success
  /\ (last.op = "fetch" /\ last.origin = "loopback" /\ last.cred = NoCred) =>
        /\ resp.status = 200
        /\ PyStr("localhost") \in DOMAIN store
        /\ store[PyStr("localhost")] = <<>>
  /\ (last.op # "none" /\ last.origin = "remote") => (last.handled <=> last.cred \in Users)

(***************************************************************************)
(* C6: an ingest body that is no JSON, or JSON without a message field     *)
(* (values that are no objects included), is answered 400 with an error    *)
(* field and leaves the store unchanged.  Stated as the claim states it;   *)
(* the code answers 500 to JSON values such as null or a number.           *)
(***************************************************************************)
C6_MalformedBodyIs400 ==
  [][(last'.op = "ingest" /\ last'.handled /\ ~HasMessage(last'.body)) =>
       /\ resp'.status = 400
       /\ resp'.body = ErrorBody(IF last'.body.j = "invalid"
                                   THEN "Invalid JSON payload"
                                   ELSE "Missing 'message' field")
       /\ store' = store]_vars

(***************************************************************************)
(* C7: ingest is all-or-nothing: an ingest answered 400 or 500 has changed *)
(* no partition of the store.  Stated as the claim states it; the code     *)
(* violates it for a target_users list with a name before an unusable      *)
(* element.                                                                *)
(***************************************************************************)
C7_FailedIngestChangesNothing ==
  [][(last'.op = "ingest" /\ last'.handled /\ resp'.status \in {400, 500}) =>
       store' = store]_vars

(***************************************************************************)
(* C8: a record returned by a fetch has the type, autoClose and actions of *)
(* the ingest payload when the payload has them, and "info", 5000 and the  *)
(* empty list when it has not.                                             *)
(***************************************************************************)
Default(field) ==
  CASE field = "type" -> JStr("info")
    [] field = "autoClose" -> JNum("5000")
    [] field = "actions" -> JArr(<<>>)

C8_FieldsRoundTrip ==
  FetchHandled =>
    /\ Len(Returned) = Len(resp.sent)
    /\ \A i \in 1..Len(resp.sent) : \A field \in {"type", "autoClose", "actions"} :
         /\ field \in DOMAIN Returned[i].members
         /\ Returned[i].members[field] =
              IF field \in DOMAIN resp.sent[i].given THEN resp.sent[i].given[field] ELSE Default(field)

\* a fetch returned a record ingested with autoClose false and two actions,
\* and a record ingested without optional fields
C8_Witness ==
  /\ FetchHandled
  /\ \E i \in 1..Len(resp.sent) :
       /\ "autoClose" \in DOMAIN resp.sent[i].given
       /\ resp.sent[i].given["autoClose"] = JFalse
       /\ Len(resp.sent[i].given["actions"].items) = 2
  /\ \E i \in 1..Len(resp.sent) : DOMAIN resp.sent[i].given = {"message"}

(***************************************************************************)
(* C9: the data member of an ingest payload round-trips: the record a      *)
(* fetch returns has a data field equal to the submitted value.  Stated as *)
(* the claim states it; the ingest handler drops data.                     *)
(***************************************************************************)
C9_DataRoundTrips ==
  FetchHandled =>
    \A i \in 1..Len(resp.sent) :
      "data" \in DOMAIN resp.sent[i].given =>
        /\ "data" \in DOMAIN Returned[i].members
        /\ Returned[i].members["data"] = resp.sent[i].given["data"]

(***************************************************************************)
(* C10: broadcast delivery is one-shot: a record handed to a user out of   *)
(* the reserved partition is returned to no other user, and a fetch leaves *)
(* no reserved partition behind.  Stated as the claim states it; the code  *)
(* violates it when the record was also appended to a user partition.      *)
(***************************************************************************)
C10_BroadcastIsOneShot ==
  /\ FetchHandled => BROADCAST \notin DOMAIN store
  /\ \A n \in 1..MaxIngests :
       shot[n] # NoOne => \A u \in Users \ {shot[n]} : handed[u][n] = 0

(***************************************************************************)
(* C11: an ingest with target_users absent or null appends the record to   *)
(* the partition of every user who has fetched before or was named by an   *)
(* earlier targeted ingest, and the record stays there until that user's   *)
(* fetch returns it; an ingest with a list of names appends the record to  *)
(* the partition of each named user and changes no other partition.        *)
(***************************************************************************)
IsPrefix(a, b) == Len(a) <= Len(b) /\ \A i \in 1..Len(a) : b[i] = a[i]

\* this step is a successful ingest that made notification nIngest'
IngestStep == /\ last'.op = "ingest" /\ last'.handled /\ resp'.status = 200
              /\ nIngest' = nIngest + 1

\* this step is a fetch handled for user u
FetchStep(u) == last'.op = "fetch" /\ last'.handled /\ last'.cred = u /\ nIngest' = nIngest

C11_IngestReachesPartitions ==
  [][/\ (IngestStep /\ ToAll(last'.body)) =>
          \A u \in known :
            /\ PyStr(u) \in DOMAIN store'
            /\ Copies(store', {PyStr(u)}, nIngest') = 1
     /\ (IngestStep /\ ToNamed(last'.body)) =>
          /\ \A u \in TargetNames(last'.body) :
               /\ PyStr(u) \in DOMAIN store'
               /\ IsPrefix(StoreGet(store, PyStr(u)), store'[PyStr(u)])
               /\ Copies(store', {PyStr(u)}, nIngest') = 1
               /\ Len(store'[PyStr(u)]) = Len(StoreGet(store, PyStr(u))) + 1
          /\ \A k \in DOMAIN store' :
               k.s \notin TargetNames(last'.body) => (k \in DOMAIN store /\ store'[k] = store[k])
     /\ \A u \in Users :
          PyStr(u) \in DOMAIN store =>
            IF FetchStep(u)
              THEN IsPrefix(Ordinals(store[PyStr(u)]), Ordinals(resp'.sent))
              ELSE PyStr(u) \in DOMAIN store' /\ IsPrefix(store[PyStr(u)], store'[PyStr(u)])
    ]_vars

\* a broadcast was handled when both users were known, and each has it
C11_Witness ==
  /\ IngestHandled /\ resp.status = 200 /\ ToAll(last.body)
  /\ known = Users
  /\ \A u \in Users : Copies(store, {PyStr(u)} \cap DOMAIN store, nIngest) = 1

(***************************************************************************)
(* C12: a fetch returns its records in arrival order: of two records in    *)
(* one response, the one ingested first comes first.  Stated as the claim  *)
(* states it; the code returns the user's list before the reserved list,   *)
(* whatever was ingested first.                                            *)
(***************************************************************************)
C12_FetchInArrivalOrder ==
  FetchHandled =>
    \A i \in 1..Len(resp.sent) : \A j \in 1..Len(resp.sent) :
      i < j => resp.sent[i].n <= resp.sent[j].n

(***************************************************************************)
(* C13: no record is lost.  Every copy of a record that an ingest appended *)
(* to a partition is still pending in the store or was returned by a       *)
(* fetch; an ingest removes no pending copy, and a fetch clears exactly    *)
(* the copies it returns.  Both handlers are synchronous methods, so the   *)
(* server handles one request at a time: the interleavings are the orders  *)
(* of whole requests.                                                      *)
(***************************************************************************)
RECURSIVE HandedTo(_, _)
HandedTo(users, n) ==
  IF users = {} THEN 0
  ELSE LET u == CHOOSE x \in users : TRUE
       IN handed[u][n] + HandedTo(users \ {u}, n)

C13_NoRecordLost ==
  \A n \in 1..MaxIngests :
    appended[n] = Copies(store, DOMAIN store, n) + HandedTo(Users, n)

\* two ingests left their records pending side by side, a third record was
\* returned by a fetch
C13_Witness ==
  /\ \E k \in DOMAIN store : Len(store[k]) >= 2 /\ store[k][1].n # store[k][2].n
  /\ \E n \in 1..MaxIngests : appended[n] > 0 /\ HandedTo(Users, n) = appended[n]

(***************************************************************************)
(* C14: the command line tool in local mode appends exactly one record to  *)
(* the server's store, returns {success: true, notification_id} with exit  *)
(* status 0, and the record is returned by the next fetch.  Stated as the  *)
(* claim states it; send_notification_local calls append on a dict.        *)
(***************************************************************************)
RECURSIVE Total(_, _)
Total(st, keys) ==
  IF keys = {} THEN 0
  ELSE LET k == CHOOSE x \in keys : TRUE IN Len(st[k]) + Total(st, keys \ {k})

C14_LocalModeAppendsOneRecord ==
  [][(last'.op = "cli" /\ cli'.args.message.ty = "str") =>
       /\ cli'.out.exit = 0
       /\ cli'.out.result.ty = "dict"
       /\ "success" \in DOMAIN cli'.out.result.members
       /\ cli'.out.result.members["success"] = PyTrue
       /\ Total(store', DOMAIN store') = Total(store, DOMAIN store) + 1
       /\ \E u \in Users : Len(Fetched(store', PyStr(u))) > Len(Fetched(store, PyStr(u)))
    ]_vars

(***************************************************************************)
(* C15: every successful ingest returns an id notif_<epoch-ms>_<n>, n the  *)
(* length of the store when the request arrives, and two ingests handled   *)
(* one right after the other return different ids, also in the same        *)
(* millisecond.  Stated as the claim states it; n is the number of         *)
(* partitions of the store, which an ingest need not change.               *)
(***************************************************************************)
ReturnedId(r) == r.body.members["notification_id"].s

C15_IdsAreFresh ==
  [][IngestStep =>
       /\ "notification_id" \in DOMAIN resp'.body.members
       /\ ReturnedId(resp') =
            "notif_" \o ToString(now) \o "_" \o ToString(Cardinality(DOMAIN store))
       /\ (IngestHandled /\ Success) => ReturnedId(resp') # ReturnedId(resp)
    ]_vars

====
